---- MODULE Spec2Model ----
(***************************************************************************)
(* The incremental channel-harvesting pipeline of                          *)
(* ANMN/NRS_AIMS/REALTIME/anmn_nrs_aims.py: the __main__ block, the qc     *)
(* level loop (process_qc_level) and the chunk loop                        *)
(* (process_monthly_channel), run by operating-system processes that        *)
(* compete for tendo's SingleInstance lock.  Dates are integers.  Every    *)
(* call into aims_realtime_util, dest_path and util is an input of the     *)
(* environment: the step that makes the call chooses its result.           *)
(***************************************************************************)
EXTENDS Integers, Sequences, FiniteSets

\* ----------------------------------------------------------------- bounds
MaxProcs == 2      \* processes that may be started on the host
MaxDate  == 5      \* latest thru_date a catalog reports

\* ------------------------------------------------------ program constants
BacklogThreshold == 200   \* len(os.listdir(ANMN_NRS_INCOMING_DIR)) >= 200
ChunkLen         == 2     \* the planner's fixed chunk size ("monthly")
NoWm             == -1    \* no watermark recorded for a (channel, qc_level)

Procs    == 1..MaxProcs
Channels == {1, 2}            \* the channel ids of the feed
Levels   == {0, 1}
Keys     == Channels \X Levels
\* the thru_date values a catalog fetch may report for a channel
ThruDates == {MaxDate - 1, MaxDate}
\* the directory sizes os.listdir may report at the admission check
Listings  == {BacklogThreshold - 1, BacklogThreshold, BacklogThreshold + 1}

Min(a, b) == IF a <= b THEN a ELSE b

VARIABLES
    lock,       \* holder of the SingleInstance lock, 0 when free
    wm,         \* ProgressStore: (channel, qc_level) -> covered_through
    pc,         \* position of each process in the script
    level,      \* level_qc of the process_qc_level call in progress
    catalog,    \* aims_xml_info: the channel records of the fetched catalog
    idx,        \* position of the channel loop in the catalog
    chunks,     \* [start_dates, end_dates] zipped: the planned chunks
    ci,         \* position of the chunk loop in chunks
    tmp,        \* the temporary workspace of the downloaded file exists
    res,        \* result of the start-up data validation test
    listing,    \* the directory size the admission check read
    exitWhy,    \* why the process is exiting
    contacted,  \* the process has contacted the remote feed
    harvested,  \* the process has fetched a catalog or a chunk for harvesting
    attempted,  \* qc-levels whose process_qc_level call has started
    catFailed,  \* qc-levels whose catalog fetch failed
    entered,    \* catalog positions whose process_monthly_channel call was made
    outcome,    \* terminal outcome of the chunk last attempted
    chanResult, \* how the channel last left ended
    inErrors,   \* the current artifact was copied to the errors directory
    moved,      \* the current artifact was moved to the incoming directory
    tracked,    \* the (channel, qc_level) keys whose failed chunks are recorded
    failedChunk,\* history: the chunk of a tracked key that last failed a gate
    evaluated,  \* the checks the loop body has made on the downloaded file
    form,       \* what the loop body has made of the downloaded file
    prior,      \* history: how the runs so far went, "off" when not recorded
    fetched     \* history: the chunks of the watched keys the run has downloaded

vars == <<lock, wm, pc, level, catalog, idx, chunks, ci, tmp, res, listing,
          exitWhy, contacted, harvested, attempted, catFailed, entered, outcome,
          chanResult, inErrors, moved, tracked, failedChunk, evaluated, form,
          prior, fetched>>

\* the variables that live in one process's memory
locals == <<level, catalog, idx, chunks, ci, tmp, res, listing, exitWhy,
            contacted, harvested, attempted, catFailed, entered, outcome,
            chanResult, inErrors, moved, evaluated, form>>

\* ------------------------------------------------------------ collaborators
\* ChannelRecord {id, from_date, thru_date}
ChannelRecord(c, t) == [id |-> c, from_date |-> 0, thru_date |-> t]

\* parse_aims_xml: the catalogs a fetch may return
Catalogs ==
    { [i \in Channels |-> ChannelRecord(i, f[i])] : f \in [Channels -> ThruDates] }
\* the catalog of a feed whose channels all report the latest thru_date
LatestCatalogs ==
    { [i \in Channels |-> ChannelRecord(i, MaxDate)] }

\* variant: the last sub-range is not clipped to thru_date
PlanUnclipped(from_date, thru_date, w) ==
    LET start == IF w = NoWm THEN from_date ELSE w
        n     == (thru_date - start + ChunkLen - 1) \div ChunkLen
    IN  IF start >= thru_date
        THEN << >>
        ELSE [i \in 1..n |->
                [start |-> start + (i - 1) * ChunkLen,
                 end   |-> start + i * ChunkLen]]

\* ChunkPlanner.plan (create_list_of_dates_to_download)
Plan(from_date, thru_date, w) ==
    LET start == IF w = NoWm THEN from_date ELSE w
        n     == (thru_date - start + ChunkLen - 1) \div ChunkLen
    IN  IF start >= thru_date
        THEN << >>
        ELSE [i \in 1..n |->
                [start |-> start + (i - 1) * ChunkLen,
                 end   |-> Min(start + i * ChunkLen, thru_date)]]

\* variant: the store is written anew with the one record, the others lost
AdvanceFresh(store, key, t) ==
    [k \in Keys |-> IF k = key THEN t ELSE NoWm]

\* ProgressStore.advance (save_channel_info)
Advance(store, key, t) ==
    IF store[key] # NoWm /\ t < store[key]
    THEN store
    ELSE [store EXCEPT ![key] = t]

\* no failed chunk recorded
NoChunk == [start |-> NoWm, end |-> NoWm, thru_date |-> NoWm]

\* the gates of the ValidationPipeline, by the outcome their failure logs
GateFailures ==
    {"time_empty", "non_monotonic", "fill_only", "unknown_site", "checker_fail"}

\* the outcomes of a chunk that end the chunk loop of its channel
AbortClass ==
    GateFailures \cup {"dl_none", "modify_fail", "regex_fail", "exception"}

\* --------------------------------------------------------------- initial state
InitRun ==
    /\ lock = 0
    /\ wm = [k \in Keys |-> NoWm]
    /\ pc = [r \in Procs |-> "idle"]
    /\ level = [r \in Procs |-> 0]
    /\ catalog = [r \in Procs |-> << >>]
    /\ idx = [r \in Procs |-> 0]
    /\ chunks = [r \in Procs |-> << >>]
    /\ ci = [r \in Procs |-> 0]
    /\ tmp = [r \in Procs |-> FALSE]
    /\ res = [r \in Procs |-> "none"]
    /\ listing = [r \in Procs |-> 0]
    /\ exitWhy = [r \in Procs |-> "none"]
    /\ contacted = [r \in Procs |-> FALSE]
    /\ harvested = [r \in Procs |-> FALSE]
    /\ attempted = [r \in Procs |-> {}]
    /\ catFailed = [r \in Procs |-> {}]
    /\ entered = [r \in Procs |-> {}]
    /\ outcome = [r \in Procs |-> "none"]
    /\ chanResult = [r \in Procs |-> "none"]
    /\ inErrors = [r \in Procs |-> FALSE]
    /\ moved = [r \in Procs |-> FALSE]
    /\ failedChunk = [k \in Keys |-> NoChunk]
    /\ evaluated = [r \in Procs |-> << >>]
    /\ form = [r \in Procs |-> "none"]
    /\ fetched = {}

\* no history is recorded
Init == InitRun /\ tracked = {} /\ prior = "off"

\* the failed chunks of one key are recorded
RetryInit ==
    /\ InitRun
    /\ \E k \in {<<1, 0>>, <<2, 1>>} : tracked = {k}
    /\ prior = "off"

\* how the runs went is recorded
TwiceInit == InitRun /\ tracked = {} /\ prior = "first"

\* ------------------------------------------------- decisions of the script
\* variant: the lock is obtained whoever holds it
AcquiredAlways(holder) == TRUE

\* singleton.SingleInstance(): the lock is obtained only when no live
\* process holds it
Acquired(holder) == holder = 0

\* variant: the threshold written with one digit too many
TooManyFilesLoose(n) == n >= 10 * BacklogThreshold

\* the admission check of the __main__ block
TooManyFiles(n) == n >= BacklogThreshold

\* variant: the except branch logs and returns to the caller
OnCatalogFailureReturn == [pc |-> "levelend", why |-> "none"]

\* an exception of parse_aims_xml: logger.error, exit(1)
OnCatalogFailure == [pc |-> "exiting", why |-> "catalog"]

\* variant: no try around the call, the exception ends the process
OnChannelExceptionExit == [pc |-> "exiting", why |-> "uncaught"]

\* an exception of process_monthly_channel: the bare except logs it and the
\* for loop goes on
OnChannelException == [pc |-> "loop", why |-> "none"]

\* variant: the TIME ordering is checked right after the transformation
GateOrderMonotonicSecond ==
    <<"timeempty", "modify", "monotonic", "fill", "site", "checker", "rename">>

\* variant: the transformation is made before the first check
GateOrderModifyFirst ==
    <<"modify", "timeempty", "fill", "site", "monotonic", "checker", "rename">>

\* the checks of one downloaded file, in the order the chunk loop makes them
GateOrder ==
    <<"timeempty", "modify", "fill", "site", "monotonic", "checker", "rename">>

\* the positions of the checks
GatePositions == {GateOrder[i] : i \in 1..Len(GateOrder)}

\* the positions of the five gates of the ValidationPipeline; "modify" and
\* "rename" are the two halves of the Transformer
ValidationGates == {"timeempty", "fill", "site", "monotonic", "checker"}

\* the gates among the checks made
GatesOf(seq) == SelectSeq(seq, LAMBDA p : p \in ValidationGates)

\* a is the beginning of b
IsPrefix(a, b) == Len(a) <= Len(b) /\ a = SubSeq(b, 1, Len(a))

\* the outcome logged when the check at a position fails
FailureOf(p) ==
    CASE p = "timeempty" -> "time_empty"
      [] p = "modify"    -> "modify_fail"
      [] p = "fill"      -> "fill_only"
      [] p = "site"      -> "unknown_site"
      [] p = "monotonic" -> "non_monotonic"
      [] p = "checker"   -> "checker_fail"
      [] p = "rename"    -> "regex_fail"

\* variant: the branch of the file name test has no copy
ArchivesCheckerOnly(o) == o = "checker_fail"

\* variant: no branch copies the file
ArchivesNothing(o) == FALSE

\* the failures whose branch calls shutil.copy(..., os.path.join(wip_path, 'errors'))
Archives(o) == o \in {"checker_fail", "regex_fail"}

\* variant: the test is len(start_dates) > 1
NothingToDownloadShort(plan) == Len(plan) <= 1

\* the else branch of if len(start_dates) != 0: the channel is up to date
NothingToDownload(plan) == plan = << >>

\* variant: the else branch of the test of the unit tests is missing
WasSuccessfulAlways(t) == TRUE

\* res.result.wasSuccessful()
WasSuccessful(t) == t = "ok"

\* variant: the break of the empty TIME branch is missing
AfterOutcomeTimeEmptySaves(o) ==
    IF o \in {"no_data", "published", "time_empty"} THEN "save" ELSE "break"

\* variant: the NO_DATA_FOUND branch ends with a break
AfterOutcomeNoDataBreaks(o) ==
    IF o = "published" THEN "save" ELSE "break"

\* variant: the break of the compliance checker branch is missing
AfterOutcomeCheckerSaves(o) ==
    IF o \in {"no_data", "published", "checker_fail"} THEN "save" ELSE "break"

\* variant: the break of the branch of a download that returned None is
\* missing
AfterOutcomeDownloadSaves(o) ==
    IF o \in {"no_data", "published", "dl_none"} THEN "save" ELSE "break"

\* what follows a terminal outcome of a chunk in the loop body: "break" leaves
\* the chunk loop, "save" goes on to save_channel_info
AfterOutcome(o) ==
    IF o \in {"no_data", "published"} THEN "save" ELSE "break"

\* variant: the date saved is a day short of the end of the chunk
SavedDateDayBefore(chunk) == chunk.end - 1

\* variant: start_date is handed over in place of end_date
SavedDateStart(chunk) == chunk.start

\* the date handed to save_channel_info at the end of the loop body
SavedDate(chunk) == chunk.end

\* exit status of the exits the script makes itself
ExitStatus(why) ==
    CASE why = "catalog"  -> 1
      [] why = "startup"  -> 1
      [] why = "backlog"  -> 0
      [] why = "selftest" -> 0
      [] why = "complete" -> 0

\* the five gates in the order the chunk loop evaluates them
GateChain == GatesOf(GateOrder)

\* variant: the site check is left out
PositionAfterSkipsSite(p) ==
    LET i == CHOOSE j \in 1..Len(GateOrder) : GateOrder[j] = p
    IN  IF p = "fill" THEN "monotonic"
        ELSE IF i < Len(GateOrder) THEN GateOrder[i + 1] ELSE "move"

\* variant: the compliance check is left out
PositionAfterSkipsChecker(p) ==
    LET i == CHOOSE j \in 1..Len(GateOrder) : GateOrder[j] = p
    IN  IF p = "monotonic" THEN "rename"
        ELSE IF i < Len(GateOrder) THEN GateOrder[i + 1] ELSE "move"

\* the statement that follows a check that passed
PositionAfter(p) ==
    LET i == CHOOSE j \in 1..Len(GateOrder) : GateOrder[j] = p
    IN  IF i < Len(GateOrder) THEN GateOrder[i + 1] ELSE "move"

\* what a check that passes makes of the file: modify_anmn_nrs_netcdf rewrites
\* it, fix_data_code_from_filename and fix_provider_code_from_filename rename
\* it, the other checks only read it
FormAfter(p, f) ==
    CASE p = "modify" -> "transformed"
      [] p = "rename" -> "renamed"
      [] OTHER        -> f

\* history: a channel left on a break or an exception marks the first run
AfterChannel(h, how) ==
    IF h = "first" /\ how \in {"abort", "exception"} THEN "first_dirty" ELSE h

\* history: a first run that reached the exit(0) of the last line has been
\* made; any other end leaves the first run still to be made
AfterRun(h, why) ==
    CASE h = "first" /\ why = "complete"       -> "after_clean"
      [] h = "first_dirty" /\ why = "complete" -> "after_dirty"
      [] h = "first_dirty" /\ why # "complete" -> "first"
      [] OTHER                                 -> h

\* positions inside process_monthly_channel
InChannel == {"plan", "download", "nodata", "move", "save"} \cup GatePositions
\* positions inside the loop over the planned chunks
InChunkLoop == InChannel \ {"plan"}
\* positions past the SingleInstance guard
PastGuard == InChannel \cup
    {"selftest", "read_listing", "admission", "dispatch", "fetch", "loop", "levelend"}

\* variant: the record is saved under qc-level 0 whatever the level
KeyLevelZero(r) == <<catalog[r][idx[r]].id, 0>>

\* the (channel_id, level_qc) handed to the planner and to save_channel_info
Key(r) == <<catalog[r][idx[r]].id, level[r]>>

\* ----------------------------------------------------------------- __main__
\* me = singleton.SingleInstance()
SingleInstance(r) ==
    /\ pc[r] = "idle"
    /\ IF Acquired(lock)
       THEN /\ lock' = r
            /\ pc' = [pc EXCEPT ![r] = "selftest"]
            /\ UNCHANGED exitWhy
       ELSE /\ pc' = [pc EXCEPT ![r] = "exiting"]
            /\ exitWhy' = [exitWhy EXCEPT ![r] = "locked"]
            /\ UNCHANGED lock
    /\ UNCHANGED <<evaluated, form, prior>>
    /\ UNCHANGED <<fetched, tracked, failedChunk, wm, level, catalog, idx, chunks, ci, tmp, res, listing,
                   contacted, harvested, attempted, catFailed, entered, outcome,
                   chanResult, inErrors, moved>>

\* set_up(); res = data_validation_test.main(exit=False): the test's setUp
\* calls parse_aims_xml and download_channel
SelfTest(r) ==
    /\ pc[r] = "selftest"
    /\ \E t \in {"ok", "fail"} : res' = [res EXCEPT ![r] = t]
    /\ contacted' = [contacted EXCEPT ![r] = TRUE]
    /\ pc' = [pc EXCEPT ![r] = "read_listing"]
    /\ UNCHANGED <<evaluated, form, prior>>
    /\ UNCHANGED <<fetched, tracked, failedChunk, lock, wm, level, catalog, idx, chunks, ci, tmp, listing,
                   exitWhy, harvested, attempted, catFailed, entered, outcome, chanResult,
                   inErrors, moved>>

\* os.listdir(ANMN_NRS_INCOMING_DIR)
ReadListing(r) ==
    /\ pc[r] = "read_listing"
    /\ \E n \in Listings : listing' = [listing EXCEPT ![r] = n]
    /\ pc' = [pc EXCEPT ![r] = "admission"]
    /\ UNCHANGED <<evaluated, form, prior>>
    /\ UNCHANGED <<fetched, tracked, failedChunk, lock, wm, level, catalog, idx, chunks, ci, tmp, res,
                   exitWhy, contacted, harvested, attempted, catFailed, entered, outcome,
                   chanResult, inErrors, moved>>

\* set_up(), logging_aims() or os.listdir raises: nothing in the __main__
\* block catches it and the interpreter ends the process
MainRaise(r) ==
    /\ pc[r] \in {"selftest", "read_listing"}
    /\ pc' = [pc EXCEPT ![r] = "exiting"]
    /\ exitWhy' = [exitWhy EXCEPT ![r] = "startup"]
    /\ UNCHANGED <<evaluated, form, prior>>
    /\ UNCHANGED <<fetched, tracked, failedChunk, lock, wm, level, catalog, idx, chunks, ci, tmp, res,
                   listing, contacted, harvested, attempted, catFailed, entered, outcome,
                   chanResult, inErrors, moved>>

\* if len(...) >= 200: logger.warning(...); exit(0)
Admission(r) ==
    /\ pc[r] = "admission"
    /\ IF TooManyFiles(listing[r])
       THEN /\ pc' = [pc EXCEPT ![r] = "exiting"]
            /\ exitWhy' = [exitWhy EXCEPT ![r] = "backlog"]
            /\ UNCHANGED listing
       ELSE /\ pc' = [pc EXCEPT ![r] = "dispatch"]
            /\ UNCHANGED <<exitWhy, listing>>
    /\ UNCHANGED <<evaluated, form, prior>>
    /\ UNCHANGED <<fetched, tracked, failedChunk, lock, wm, level, catalog, idx, chunks, ci, tmp, res,
                   contacted, harvested, attempted, catFailed, entered, outcome,
                   chanResult, inErrors, moved>>

\* if res.result.wasSuccessful(): process_qc_level(0) ... else: warning, exit(0)
Dispatch(r) ==
    /\ pc[r] = "dispatch"
    /\ IF WasSuccessful(res[r])
       THEN /\ pc' = [pc EXCEPT ![r] = "fetch"]
            /\ level' = [level EXCEPT ![r] = 0]
            /\ UNCHANGED exitWhy
       ELSE /\ pc' = [pc EXCEPT ![r] = "exiting"]
            /\ exitWhy' = [exitWhy EXCEPT ![r] = "selftest"]
            /\ UNCHANGED level
    /\ UNCHANGED <<evaluated, form, prior>>
    /\ UNCHANGED <<fetched, tracked, failedChunk, lock, wm, catalog, idx, chunks, ci, tmp, res, listing,
                   contacted, harvested, attempted, catFailed, entered, outcome,
                   chanResult, inErrors, moved>>

\* the process ends: its memory is gone and the system releases its lock
EndOfProcess(r, why) ==
    /\ pc' = [pc EXCEPT ![r] = "idle"]
    /\ lock' = IF lock = r THEN 0 ELSE lock
    /\ level' = [level EXCEPT ![r] = 0]
    /\ catalog' = [catalog EXCEPT ![r] = << >>]
    /\ idx' = [idx EXCEPT ![r] = 0]
    /\ chunks' = [chunks EXCEPT ![r] = << >>]
    /\ ci' = [ci EXCEPT ![r] = 0]
    /\ tmp' = [tmp EXCEPT ![r] = FALSE]
    /\ res' = [res EXCEPT ![r] = "none"]
    /\ listing' = [listing EXCEPT ![r] = 0]
    /\ exitWhy' = [exitWhy EXCEPT ![r] = "none"]
    /\ contacted' = [contacted EXCEPT ![r] = FALSE]
    /\ harvested' = [harvested EXCEPT ![r] = FALSE]
    /\ attempted' = [attempted EXCEPT ![r] = {}]
    /\ catFailed' = [catFailed EXCEPT ![r] = {}]
    /\ entered' = [entered EXCEPT ![r] = {}]
    /\ outcome' = [outcome EXCEPT ![r] = "none"]
    /\ chanResult' = [chanResult EXCEPT ![r] = "none"]
    /\ inErrors' = [inErrors EXCEPT ![r] = FALSE]
    /\ moved' = [moved EXCEPT ![r] = FALSE]
    /\ evaluated' = [evaluated EXCEPT ![r] = << >>]
    /\ form' = [form EXCEPT ![r] = "none"]
    /\ prior' = AfterRun(prior, why)
    /\ fetched' = {}
    /\ UNCHANGED <<wm, tracked, failedChunk>>

\* exit(0), exit(1), or the exit of a process that found the lock held
Terminate(r) ==
    /\ pc[r] = "exiting"
    /\ EndOfProcess(r, exitWhy[r])

\* the process is terminated from outside, wherever it is past the guard
Kill(r) ==
    /\ pc[r] \in PastGuard
    /\ EndOfProcess(r, "killed")

\* --------------------------------------------------------- process_qc_level
\* aims_xml_info = parse_aims_xml(xml_url), and its except branch
ParseAimsXml(r, cats) ==
    /\ pc[r] = "fetch"
    /\ attempted' = [attempted EXCEPT ![r] = @ \cup {level[r]}]
    /\ contacted' = [contacted EXCEPT ![r] = TRUE]
    /\ harvested' = [harvested EXCEPT ![r] = TRUE]
    /\ \/ \E cat \in cats :
            /\ catalog' = [catalog EXCEPT ![r] = cat]
            /\ idx' = [idx EXCEPT ![r] = 1]
            /\ pc' = [pc EXCEPT ![r] = "loop"]
            /\ UNCHANGED <<exitWhy, catFailed>>
       \/ /\ catFailed' = [catFailed EXCEPT ![r] = @ \cup {level[r]}]
          /\ pc' = [pc EXCEPT ![r] = OnCatalogFailure.pc]
          /\ exitWhy' = [exitWhy EXCEPT ![r] = OnCatalogFailure.why]
          /\ UNCHANGED <<catalog, idx>>
    /\ UNCHANGED <<evaluated, form, prior>>
    /\ UNCHANGED <<fetched, tracked, failedChunk, lock, wm, level, chunks, ci, tmp, res, listing, entered,
                   outcome, chanResult, inErrors, moved>>

\* for channel_id in aims_xml_info[0]: the head of the loop
ChannelLoop(r) ==
    /\ pc[r] = "loop"
    /\ IF idx[r] <= Len(catalog[r])
       THEN /\ pc' = [pc EXCEPT ![r] = "plan"]
            /\ entered' = [entered EXCEPT ![r] = @ \cup {idx[r]}]
       ELSE /\ pc' = [pc EXCEPT ![r] = "levelend"]
            /\ UNCHANGED entered
    /\ prior' = AfterChannel(prior, chanResult[r])
    /\ UNCHANGED <<fetched, tracked, failedChunk, lock, wm, level, catalog, idx, chunks, ci, tmp, res,
                   listing, exitWhy, contacted, harvested, attempted,
                   catFailed, outcome, chanResult, inErrors, moved, evaluated, form>>

\* process_qc_level returns: process_qc_level(1) follows process_qc_level(0),
\* close_logger and exit(0) follow process_qc_level(1)
LevelEnd(r) ==
    /\ pc[r] = "levelend"
    /\ catalog' = [catalog EXCEPT ![r] = << >>]
    /\ idx' = [idx EXCEPT ![r] = 0]
    /\ entered' = [entered EXCEPT ![r] = {}]
    /\ IF level[r] = 0
       THEN /\ level' = [level EXCEPT ![r] = 1]
            /\ pc' = [pc EXCEPT ![r] = "fetch"]
            /\ UNCHANGED exitWhy
       ELSE /\ pc' = [pc EXCEPT ![r] = "exiting"]
            /\ exitWhy' = [exitWhy EXCEPT ![r] = "complete"]
            /\ UNCHANGED level
    /\ UNCHANGED <<evaluated, form, prior>>
    /\ UNCHANGED <<fetched, tracked, failedChunk, lock, wm, chunks, ci, tmp, res, listing, contacted,
                   harvested, attempted, catFailed, outcome, chanResult,
                   inErrors, moved>>

\* -------------------------------------------------- process_monthly_channel
\* variant: the loop stays on the channel it has just left
NextChannelSame(i) == i

\* for channel_id in aims_xml_info[0]: the iterator's next position
NextChannel(i) == i + 1

\* the function returns to the channel loop, which takes the next channel
LeaveChannel(r, how) ==
    /\ chanResult' = [chanResult EXCEPT ![r] = how]
    /\ pc' = [pc EXCEPT ![r] = "loop"]
    /\ idx' = [idx EXCEPT ![r] = NextChannel(@)]
    /\ chunks' = [chunks EXCEPT ![r] = << >>]
    /\ ci' = [ci EXCEPT ![r] = 0]

\* get_channel_info, create_list_of_dates_to_download, len(start_dates) != 0
PlanChannel(r) ==
    /\ pc[r] = "plan"
    /\ outcome' = [outcome EXCEPT ![r] = "none"]
    /\ inErrors' = [inErrors EXCEPT ![r] = FALSE]
    /\ moved' = [moved EXCEPT ![r] = FALSE]
    /\ tmp' = [tmp EXCEPT ![r] = FALSE]
    /\ evaluated' = [evaluated EXCEPT ![r] = << >>]
    /\ form' = [form EXCEPT ![r] = "none"]
    /\ LET rec  == catalog[r][idx[r]]
           plan == Plan(rec.from_date, rec.thru_date, wm[Key(r)])
       IN  IF NothingToDownload(plan)
           THEN LeaveChannel(r, "uptodate")
           ELSE /\ chunks' = [chunks EXCEPT ![r] = plan]
                /\ ci' = [ci EXCEPT ![r] = 1]
                /\ pc' = [pc EXCEPT ![r] = "download"]
                /\ chanResult' = [chanResult EXCEPT ![r] = "none"]
                /\ UNCHANGED idx
    /\ UNCHANGED <<fetched, tracked, failedChunk, lock, wm, level, catalog, res, listing, exitWhy,
                   contacted, harvested, attempted, catFailed, entered, prior>>

\* netcdf_tmp_file_path = download_channel(...); None ends the chunk loop
DownloadChannel(r, watched) ==
    /\ pc[r] = "download"
    /\ fetched' = IF Key(r) \in watched
                  THEN fetched \cup {<<Key(r), chunks[r][ci[r]].start>>}
                  ELSE fetched
    /\ contacted' = [contacted EXCEPT ![r] = TRUE]
    /\ harvested' = [harvested EXCEPT ![r] = TRUE]
    /\ inErrors' = [inErrors EXCEPT ![r] = FALSE]
    /\ moved' = [moved EXCEPT ![r] = FALSE]
    /\ evaluated' = [evaluated EXCEPT ![r] = << >>]
    /\ \/ /\ outcome' = [outcome EXCEPT ![r] = "dl_none"]
          /\ tmp' = [tmp EXCEPT ![r] = FALSE]
          /\ form' = [form EXCEPT ![r] = "none"]
          /\ IF AfterOutcome("dl_none") = "break"
             THEN LeaveChannel(r, "abort")
             ELSE /\ pc' = [pc EXCEPT ![r] = "save"]
                  /\ UNCHANGED <<idx, chunks, ci, chanResult>>
       \/ /\ outcome' = [outcome EXCEPT ![r] = "none"]
          /\ tmp' = [tmp EXCEPT ![r] = TRUE]
          /\ form' = [form EXCEPT ![r] = "raw"]
          /\ pc' = [pc EXCEPT ![r] = "nodata"]
          /\ UNCHANGED <<idx, chunks, ci, chanResult>>
    /\ failedChunk' = [failedChunk EXCEPT ![Key(r)] = NoChunk]
    /\ UNCHANGED <<tracked, lock, wm, level, catalog, res, listing, exitWhy,
                   attempted, catFailed, entered, prior>>

\* if is_no_data_found(...): warning, rmtree; the loop body goes on to
\* save_channel_info.  The feed never answers NO_DATA_FOUND for a chunk of bad
IsNoDataFound(r, bad) ==
    /\ pc[r] = "nodata"
    /\ \/ /\ <<Key(r), chunks[r][ci[r]].start>> \notin bad
          /\ outcome' = [outcome EXCEPT ![r] = "no_data"]
          /\ tmp' = [tmp EXCEPT ![r] = FALSE]
          /\ form' = [form EXCEPT ![r] = "none"]
          /\ IF AfterOutcome("no_data") = "break"
             THEN LeaveChannel(r, "abort")
             ELSE /\ pc' = [pc EXCEPT ![r] = "save"]
                  /\ UNCHANGED <<idx, chunks, ci, chanResult>>
       \/ /\ pc' = [pc EXCEPT ![r] = GateOrder[1]]
          /\ UNCHANGED <<outcome, tmp, form, idx, chunks, ci, chanResult>>
    /\ UNCHANGED <<fetched, tracked, failedChunk, lock, wm, level, catalog, res, listing, exitWhy,
                   contacted, harvested, attempted, catFailed, entered,
                   inErrors, moved, evaluated, prior>>

\* one check of the else branch: on failure logger.error, the copy to the
\* errors directory where the branch has one, rmtree, break
Gate(r, p) ==
    /\ pc[r] = p
    /\ evaluated' = [evaluated EXCEPT ![r] = Append(@, p)]
    /\ \/ /\ outcome' = [outcome EXCEPT ![r] = FailureOf(p)]
          /\ inErrors' = [inErrors EXCEPT ![r] = Archives(FailureOf(p))]
          /\ tmp' = [tmp EXCEPT ![r] = FALSE]
          /\ form' = [form EXCEPT ![r] = "none"]
          /\ IF AfterOutcome(FailureOf(p)) = "break"
             THEN LeaveChannel(r, "abort")
             ELSE /\ pc' = [pc EXCEPT ![r] = "save"]
                  /\ UNCHANGED <<idx, chunks, ci, chanResult>>
       \/ /\ pc' = [pc EXCEPT ![r] = PositionAfter(p)]
          /\ form' = [form EXCEPT ![r] = FormAfter(p, @)]
          /\ UNCHANGED <<outcome, inErrors, tmp, idx, chunks, ci, chanResult>>
    /\ failedChunk' =
          IF outcome'[r] \in GateFailures /\ Key(r) \in tracked
          THEN [failedChunk EXCEPT ![Key(r)] =
                   [start     |-> chunks[r][ci[r]].start,
                    end       |-> chunks[r][ci[r]].end,
                    thru_date |-> catalog[r][idx[r]].thru_date]]
          ELSE failedChunk
    /\ UNCHANGED <<fetched, tracked, lock, wm, level, catalog, res, listing, exitWhy,
                   contacted, harvested, attempted, catFailed, entered, moved, prior>>

IsTimeVarEmpty(r)       == Gate(r, "timeempty")
ModifyAnmnNrsNetcdf(r)  == Gate(r, "modify")
HasVarOnlyFillValue(r)  == Gate(r, "fill")
GetAnmnNrsSiteName(r)   == Gate(r, "site")
IsTimeMonotonic(r)      == Gate(r, "monotonic")
PassNetcdfChecker(r)    == Gate(r, "checker")
FixFilename(r)          == Gate(r, "rename")

\* move_to_incoming: chmod, shutil.move, shutil.rmtree; an exception of
\* rmtree leaves the file moved and reaches the except of process_qc_level.
\* The move of a file of a chunk of bad never returns
MoveToIncoming(r, bad) ==
    /\ pc[r] = "move"
    /\ moved' = [moved EXCEPT ![r] = TRUE]
    /\ \/ /\ <<Key(r), chunks[r][ci[r]].start>> \notin bad
          /\ outcome' = [outcome EXCEPT ![r] = "published"]
          /\ tmp' = [tmp EXCEPT ![r] = FALSE]
          /\ pc' = [pc EXCEPT ![r] = "save"]
          /\ UNCHANGED <<idx, chunks, ci, chanResult, exitWhy>>
       \/ /\ outcome' = [outcome EXCEPT ![r] = "exception"]
          /\ UNCHANGED tmp
          /\ IF OnChannelException.pc = "loop"
             THEN /\ LeaveChannel(r, "exception")
                  /\ UNCHANGED exitWhy
             ELSE /\ pc' = [pc EXCEPT ![r] = OnChannelException.pc]
                  /\ exitWhy' = [exitWhy EXCEPT ![r] = OnChannelException.why]
                  /\ chanResult' = [chanResult EXCEPT ![r] = "exception"]
                  /\ UNCHANGED <<idx, chunks, ci>>
    /\ UNCHANGED <<fetched, tracked, failedChunk, lock, wm, level, catalog, res, listing, contacted,
                   harvested, attempted, catFailed, entered, inErrors, evaluated, form,
                   prior>>

\* save_channel_info(channel_id, aims_xml_info, level_qc, end_date), the last
\* statement of the loop body
SaveChannelInfo(r) ==
    /\ pc[r] = "save"
    /\ wm' = Advance(wm, Key(r), SavedDate(chunks[r][ci[r]]))
    /\ IF ci[r] < Len(chunks[r])
       THEN /\ ci' = [ci EXCEPT ![r] = @ + 1]
            /\ pc' = [pc EXCEPT ![r] = "download"]
            /\ UNCHANGED <<idx, chunks, chanResult>>
       ELSE LeaveChannel(r, "done")
    /\ UNCHANGED <<evaluated, form, prior>>
    /\ UNCHANGED <<fetched, tracked, failedChunk, lock, level, catalog, tmp, res, listing, exitWhy,
                   contacted, harvested, attempted, catFailed, entered, outcome, inErrors, moved>>

\* any call of process_monthly_channel raises: the except of
\* process_qc_level
Raise(r) ==
    /\ pc[r] \in InChannel
    /\ outcome' = [outcome EXCEPT ![r] = "exception"]
    /\ evaluated' = [evaluated EXCEPT ![r] = << >>]
    /\ form' = [form EXCEPT ![r] = "none"]
    /\ IF OnChannelException.pc = "loop"
       THEN /\ LeaveChannel(r, "exception")
            /\ UNCHANGED exitWhy
       ELSE /\ pc' = [pc EXCEPT ![r] = OnChannelException.pc]
            /\ exitWhy' = [exitWhy EXCEPT ![r] = OnChannelException.why]
            /\ chanResult' = [chanResult EXCEPT ![r] = "exception"]
            /\ UNCHANGED <<idx, chunks, ci>>
    /\ UNCHANGED <<fetched, tracked, failedChunk, lock, wm, level, catalog, tmp, res, listing, contacted,
                   harvested, attempted, catFailed, entered, inErrors, moved, prior>>

\* ------------------------------------------------------------ specification
\* the world a run meets: the catalogs the feed may serve, the chunks it
\* serves broken whenever they are asked for, and the keys whose downloads
\* are recorded
World(cats, bad, watched) == [cats |-> cats, bad |-> bad, watched |-> watched]

\* a feed with no permanently broken chunk, no download recorded
Feed(cats) == World(cats, {}, {})

\* one step of the script in process r
Script(r, e) ==
    \/ SingleInstance(r)
    \/ SelfTest(r)
    \/ ReadListing(r)
    \/ MainRaise(r)
    \/ Admission(r)
    \/ Dispatch(r)
    \/ ParseAimsXml(r, e.cats)
    \/ ChannelLoop(r)
    \/ LevelEnd(r)
    \/ PlanChannel(r)
    \/ DownloadChannel(r, e.watched)
    \/ IsNoDataFound(r, e.bad)
    \/ IsTimeVarEmpty(r)
    \/ ModifyAnmnNrsNetcdf(r)
    \/ HasVarOnlyFillValue(r)
    \/ GetAnmnNrsSiteName(r)
    \/ IsTimeMonotonic(r)
    \/ PassNetcdfChecker(r)
    \/ FixFilename(r)
    \/ MoveToIncoming(r, e.bad)
    \/ SaveChannelInfo(r)
    \/ Raise(r)
    \/ Terminate(r)

\* one step of process r: a step of its script, or its end from outside
Step(r, e) ==
    \/ Script(r, e)
    \/ Kill(r)

\* the runs of the script on a host that starts one at a time: run after run
\* of one process, every catalog of Catalogs possible at every fetch
Next == Step(1, Feed(Catalogs))
Spec == Init /\ [][Next]_vars

\* the same runs, the history of the failed chunks of one key recorded
RetrySpec == RetryInit /\ [][Next]_vars

\* run after run of one process against a feed whose catalog does not change,
\* how the runs went recorded
TwiceSpec == TwiceInit /\ [][Step(1, Feed(LatestCatalogs))]_vars

\* every process of the host, started at any time, also while another runs
HostNext == \E r \in Procs : Step(r, Feed(LatestCatalogs))
HostSpec == Init /\ [][HostNext]_vars

\* the key and the start of the chunk the feed serves broken
BrokenKey == <<1, 0>>
BrokenStart == ChunkLen

\* run after run of one process, the second chunk of one channel at level 0
\* broken for good
BrokenNext == Step(1, World(LatestCatalogs, {<<BrokenKey, BrokenStart>>}, {}))
BrokenSpec == Init /\ [][BrokenNext]_vars

\* the keys whose downloads are recorded: the first and the last of a run
WatchedKeys == {<<1, 0>>, <<2, 1>>}

\* run after run of one process, the downloads of the watched keys recorded
OnceNext == Step(1, World(LatestCatalogs, {}, WatchedKeys))
OnceSpec == Init /\ [][OnceNext]_vars

\* a run that is not terminated from outside and whose every call returns:
\* the script goes on as long as it has a statement to execute
RunNext == Script(1, Feed(LatestCatalogs))
LiveSpec == Init /\ [][RunNext]_vars /\ WF_vars(RunNext)

\* ------------------------------------------------------------------- claims
\* C1: channel isolation.  Whatever fault ends a channel (an abort-class
\* outcome or an exception of process_monthly_channel), the loop of
\* process_qc_level goes on: the calls made are those of the catalog
\* positions up to the loop's, none skipped, and the loop is left, or the
\* process exits, only when the call was made for every channel of the
\* catalog.
C1_ChannelIsolation ==
    \A r \in Procs :
        /\ pc[r] = "loop" => entered[r] = 1..(idx[r] - 1)
        /\ pc[r] \in InChannel => entered[r] = 1..idx[r]
        /\ (pc[r] \in {"levelend", "exiting"} /\ catalog[r] # << >>)
              => entered[r] = DOMAIN catalog[r]

\* the first channel ended in an exception and the call for the second is made
C1_Witness ==
    /\ pc[1] = "plan"
    /\ idx[1] = 2
    /\ chanResult[1] = "exception"
    /\ 2 \in entered[1]

\* C2: monotonic watermark.  No step of any run lowers the covered_through of
\* any (channel, qc_level); an absent record counts as below every date.
C2_MonotonicWatermark ==
    [][\A k \in Keys : wm'[k] >= wm[k]]_vars

\* a later run plans a channel whose watermark is past the thru_date the
\* catalog now reports
C2_Witness ==
    /\ pc[1] = "plan"
    /\ wm[Key(1)] = MaxDate
    /\ catalog[1][idx[1]].thru_date < MaxDate

\* C3: a chunk whose download returns no file, whose TIME variable is empty
\* or whose transformation fails leaves every watermark as it was, below the
\* chunk's end, ends the chunk loop of the channel, and the channel loop goes
\* on with the next catalog position.
C3_TransportFailureAborts ==
    [][\A r \in Procs :
          (/\ pc[r] \in {"download", "timeempty", "modify"}
           /\ outcome'[r] \in {"dl_none", "time_empty", "modify_fail"})
          => /\ wm' = wm
             /\ wm[Key(r)] < chunks[r][ci[r]].end
             /\ pc'[r] = "loop"
             /\ idx'[r] = idx[r] + 1
             /\ catalog'[r] = catalog[r]
             /\ level'[r] = level[r]
             /\ exitWhy'[r] = "none"]_vars

\* the first channel was left on an empty TIME variable and the second is
\* being processed
C3_Witness ==
    /\ pc[1] = "plan"
    /\ idx[1] = 2
    /\ outcome[1] = "time_empty"
    /\ chanResult[1] = "abort"

\* C4: on NO_DATA_FOUND nothing is moved to the incoming directory or copied
\* to the errors directory, the loop body goes on to save_channel_info, which
\* (unless it raises or the process is terminated) sets the watermark to the
\* chunk's end, and the next chunk of the channel, if there is one, is
\* downloaded next.
C4_NoDataAdvances ==
    [][\A r \in Procs :
          /\ (pc[r] = "nodata" /\ outcome'[r] = "no_data")
                => /\ pc'[r] = "save"
                   /\ wm' = wm
                   /\ ~moved'[r] /\ ~inErrors'[r]
          /\ (/\ pc[r] = "save" /\ outcome[r] = "no_data"
              /\ pc'[r] \in {"download", "loop"} /\ outcome'[r] # "exception")
                => /\ wm'[Key(r)] = chunks[r][ci[r]].end
                   /\ ~moved'[r] /\ ~inErrors'[r]
                   /\ ci[r] < Len(chunks[r])
                         => /\ pc'[r] = "download"
                            /\ ci'[r] = ci[r] + 1
                            /\ chunks'[r] = chunks[r]]_vars

\* the first chunk had no data, the watermark is at its end and the second
\* chunk is about to be downloaded
C4_Witness ==
    /\ pc[1] = "download"
    /\ ci[1] = 2
    /\ outcome[1] = "no_data"
    /\ wm[Key(1)] = chunks[1][1].end

\* the download that follows a recorded gate failure of its key
C5_Inv ==
    \A r \in Procs :
        (pc[r] = "download" /\ failedChunk[Key(r)] # NoChunk)
        => /\ ci[r] = 1
           /\ chunks[r][1].start = failedChunk[Key(r)].start
           /\ catalog[r][idx[r]].thru_date = failedChunk[Key(r)].thru_date
                 => chunks[r][1].end = failedChunk[Key(r)].end

\* the step in which a check of the ValidationPipeline fails
C5_Step ==
    \A r \in Procs :
        (pc[r] \in GatePositions /\ outcome'[r] \in GateFailures)
        => /\ wm' = wm
           /\ wm[Key(r)] < chunks[r][ci[r]].end
           /\ ci[r] > 1 => wm[Key(r)] = chunks[r][ci[r] - 1].end
           /\ pc'[r] = "loop"
           /\ idx'[r] = idx[r] + 1

\* C5: a chunk k that fails a validation gate leaves every watermark as it
\* was, at the end of chunk k-1 when k > 1, and ends the chunk loop, so no
\* later chunk is attempted in the run; the next download made for that
\* (channel, qc_level) is the first of a later run, starts where chunk k
\* started, and is chunk k itself when the catalog reports the thru_date it
\* reported then.
C5_GateFailureRetried == [](C5_Inv) /\ [][C5_Step]_vars

\* a later run is about to download again, as its first chunk, a chunk that
\* failed a gate as the second or a later chunk of its run
C5_Witness ==
    /\ pc[1] = "download"
    /\ ci[1] = 1
    /\ failedChunk[Key(1)] # NoChunk
    /\ failedChunk[Key(1)].start > 0
    /\ chunks[1][1] = [start |-> failedChunk[Key(1)].start,
                       end   |-> failedChunk[Key(1)].end]

\* C6 as stated: every artifact that fails a gate of the ValidationPipeline
\* is in the errors directory when its workspace has been removed.
C6_EveryGateFailureArchived ==
    \A r \in Procs : outcome[r] \in GateFailures => inErrors[r]

\* C6 as amended: the artifacts that fail the compliance checker, or the file
\* name check after it, are copied to the errors directory and their
\* workspace is removed; those that fail an earlier check (empty TIME,
\* transformation, fill values only, unknown site, non monotonic TIME) are
\* removed without a copy.  The workspace is there while the checks run.
C6_CheckerFailureArchived ==
    \A r \in Procs :
        /\ outcome[r] \in {"checker_fail", "regex_fail"} => inErrors[r] /\ ~tmp[r]
        /\ outcome[r] \in {"time_empty", "modify_fail", "fill_only",
                           "unknown_site", "non_monotonic"}
              => ~inErrors[r] /\ ~tmp[r]
        /\ pc[r] \in GatePositions => tmp[r]

\* a file that failed the compliance checker has been copied and removed
C6_Witness ==
    /\ outcome[1] = "checker_fail"
    /\ inErrors[1]
    /\ ~tmp[1]

\* C7 as stated: a run whose catalog fetch failed for qc-level 0 has attempted
\* qc-level 1 by the time it exits.
C7_LevelOneStillAttempted ==
    \A r \in Procs :
        (pc[r] = "exiting" /\ 0 \in catFailed[r]) => 1 \in attempted[r]

\* C7 as amended: when the catalog fetch for qc-level 0 fails the process
\* exits at once with status 1; no channel of level 0 is processed and
\* qc-level 1 is not attempted in that run.
C7_CatalogFailureExits ==
    \A r \in Procs :
        0 \in catFailed[r]
        => /\ pc[r] = "exiting"
           /\ exitWhy[r] = "catalog"
           /\ ExitStatus(exitWhy[r]) = 1
           /\ attempted[r] = {0}
           /\ entered[r] = {}

\* the fetch for level 0 failed and the process is exiting
C7_Witness ==
    /\ 0 \in catFailed[1]
    /\ exitWhy[1] = "catalog"
    /\ attempted[1] = {0}

\* C8: from the failure of parse_aims_xml on, the process is exiting: no
\* process_monthly_channel call is made for the failed level, no later level
\* is started, and no watermark changes.
C8_CatalogFailureAbortsRun ==
    [][\A r \in Procs :
          catFailed'[r] # {}
          => /\ pc'[r] = "exiting"
             /\ wm' = wm
             /\ entered'[r] = {}
             /\ attempted'[r] = 0..level[r]
             /\ catFailed'[r] = {level[r]}]_vars

\* the fetch for level 0 fails in a run that follows one which recorded a
\* watermark
C8_Witness ==
    /\ catFailed[1] = {0}
    /\ pc[1] = "exiting"
    /\ \E k \in Keys : wm[k] # NoWm

\* who is past the guard, and what a refused process has done
C9_Inv ==
    /\ Cardinality({r \in Procs : pc[r] \in PastGuard}) <= 1
    /\ \A r \in Procs :
          /\ (pc[r] \in PastGuard \/ contacted[r] \/ harvested[r]) => lock = r
          /\ exitWhy[r] = "locked"
                => /\ pc[r] = "exiting"
                   /\ lock # r
                   /\ ~contacted[r] /\ ~harvested[r]
                   /\ attempted[r] = {} /\ entered[r] = {}

\* who writes the ProgressStore
C9_Step ==
    /\ wm' # wm => \E r \in Procs : lock = r /\ pc[r] = "save"
    /\ \A r \in Procs : (pc[r] = "idle" /\ exitWhy'[r] = "locked") => wm' = wm

\* C9: guard exclusivity.  At most one process is past SingleInstance, and it
\* holds the lock; only a process that holds the lock has contacted the feed;
\* a process that found the lock held has contacted nothing and started no
\* level; and every change of the ProgressStore is the save_channel_info of
\* the lock holder.
C9_GuardExclusivity == [](C9_Inv) /\ [][C9_Step]_vars

\* one process is downloading while another has found the lock held
C9_Witness ==
    \E r, s \in Procs :
        /\ r # s
        /\ pc[r] = "download"
        /\ exitWhy[s] = "locked"

\* C10 as stated: a run that found more than the threshold of files in the
\* incoming directory exits on the admission check without having contacted
\* the feed.
C10_NoFeedContactOnBacklog ==
    \A r \in Procs :
        (pc[r] = "exiting" /\ listing[r] > BacklogThreshold)
        => exitWhy[r] = "backlog" /\ ~contacted[r]

\* C10 as amended: a run that found more than the threshold of files exits
\* on the admission check with status 0 before process_qc_level is called:
\* it fetches no catalog and downloads no chunk for harvesting; the feed was
\* contacted once before the check, by the start-up data validation test.
C10_NoHarvestOnBacklog ==
    \A r \in Procs :
        (listing[r] > BacklogThreshold /\ pc[r] # "admission")
        => /\ pc[r] = "exiting"
           /\ exitWhy[r] = "backlog"
           /\ ExitStatus(exitWhy[r]) = 0
           /\ ~harvested[r]
           /\ attempted[r] = {} /\ entered[r] = {}
           /\ contacted[r]

\* the check read one file more than the threshold and the process is exiting
C10_Witness ==
    /\ listing[1] = BacklogThreshold + 1
    /\ pc[1] = "exiting"
    /\ exitWhy[1] = "backlog"

\* C11 as stated: the second of two runs against an unchanged catalog, the
\* ProgressStore left as the first run wrote it, downloads no chunk.
C11_SecondRunDownloadsNothing ==
    prior \in {"after_clean", "after_dirty"}
    => \A r \in Procs : pc[r] \notin InChunkLoop

\* C11 as amended: when the first of two runs against an unchanged catalog
\* left every channel of both qc-levels without a break or an exception, every
\* watermark is at the thru_date of the catalog and the second run enters no
\* chunk loop; a chunk loop is entered only for a (channel, qc_level) whose
\* watermark is below the thru_date, so the chunks a first run left on a
\* break or an exception are downloaded again by the second.
C11_CleanRunThenNoDownload ==
    /\ prior = "after_clean"
          => /\ \A k \in Keys : wm[k] = MaxDate
             /\ \A r \in Procs : pc[r] \notin InChunkLoop
    /\ \A r \in Procs :
          pc[r] \in InChunkLoop => wm[Key(r)] < catalog[r][idx[r]].thru_date

\* the second run has found every channel of both qc-levels up to date
C11_Witness ==
    /\ prior = "after_clean"
    /\ pc[1] = "levelend"
    /\ level[1] = 1
    /\ chanResult[1] = "uptodate"

\* C12 as stated: the gates evaluated on a file are a beginning of the
\* canonical order (non-empty TIME, monotonic TIME, not only fill values,
\* site recognized, compliance check), and a gate that passes leaves the
\* file as it was.
C12_CanonicalOrder ==
    /\ [](\A r \in Procs :
            IsPrefix(GatesOf(evaluated[r]),
                     <<"timeempty", "monotonic", "fill", "site", "checker">>))
    /\ [][\A r \in Procs :
            (pc[r] \in ValidationGates /\ pc'[r] \in GatePositions \cup {"move"})
            => form'[r] = form[r]]_vars

\* the gates evaluated, in the order of the chunk loop
C12_Inv ==
    \A r \in Procs :
        IsPrefix(GatesOf(evaluated[r]),
                 <<"timeempty", "fill", "site", "monotonic", "checker">>)

\* a gate that passes leaves the file as it was
C12_Step ==
    \A r \in Procs :
        (pc[r] \in ValidationGates /\ pc'[r] \in GatePositions \cup {"move"})
        => /\ form'[r] = form[r]
           /\ tmp'[r] = tmp[r]

\* C12 as amended: the gates are evaluated in the order non-empty TIME, not
\* only fill values, site recognized, strictly monotonic TIME, compliance
\* check (the monotonic check is the fourth, not the second), and no gate
\* changes the file: it is rewritten between the first and the second gate by
\* the Transformer only.
C12_CodeOrder == [](C12_Inv) /\ [][C12_Step]_vars

\* a file has passed the fill value and site checks and its TIME ordering is
\* about to be checked
C12_Witness ==
    /\ pc[1] = "monotonic"
    /\ GatesOf(evaluated[1]) = <<"timeempty", "fill", "site">>
    /\ form[1] = "transformed"

\* C13: short-circuit determinism.  When a file has failed the k-th gate of
\* the chain, the gates evaluated on it are exactly the first k of the chain,
\* in order: the k-1 before it were evaluated and passed, none after it was
\* evaluated, the file is gone and the chunk loop has been left.
C13_ShortCircuit ==
    \A r \in Procs : \A k \in 1..Len(GateChain) :
        outcome[r] = FailureOf(GateChain[k])
        => /\ GatesOf(evaluated[r]) = SubSeq(GateChain, 1, k)
           /\ ~tmp[r]
           /\ pc[r] \notin InChunkLoop

\* a file failed the fourth gate after passing the first three
C13_Witness ==
    /\ outcome[1] = "non_monotonic"
    /\ Len(GatesOf(evaluated[1])) = 4
    /\ pc[1] = "loop"

\* C14 as stated: both halves of the Transformer (modify_anmn_nrs_netcdf and
\* the file name code fixes) have run on a file before any gate is evaluated
\* on it.
C14_TransformedBeforeAnyGate ==
    \A r \in Procs : \A i \in DOMAIN evaluated[r] :
        evaluated[r][i] \in ValidationGates
        => /\ \E j \in 1..(i - 1) : evaluated[r][j] = "modify"
           /\ \E j \in 1..(i - 1) : evaluated[r][j] = "rename"

\* C14 as amended: modify_anmn_nrs_netcdf runs on a downloaded file after the
\* download and the empty TIME gate, and before the four other gates, which
\* see the transformed file; the file name code fixes run after the last
\* gate, the compliance check, and before the move.
C14_TransformAfterFirstGate ==
    \A r \in Procs :
        /\ \A i \in DOMAIN evaluated[r] :
              /\ evaluated[r][i] = "modify"
                    => i = 2 /\ evaluated[r][1] = "timeempty"
              /\ evaluated[r][i] \in ValidationGates \ {"timeempty"}
                    => \E j \in 1..(i - 1) : evaluated[r][j] = "modify"
              /\ evaluated[r][i] = "rename"
                    => \A g \in ValidationGates :
                          \E j \in 1..(i - 1) : evaluated[r][j] = g
        /\ pc[r] \in {"timeempty", "modify"} => form[r] = "raw" /\ tmp[r]
        /\ pc[r] \in ValidationGates \ {"timeempty"} => form[r] = "transformed"
        /\ pc[r] = "move" => /\ form[r] = "renamed"
                             /\ evaluated[r][Len(evaluated[r])] = "rename"

\* the file names are being fixed on a file that passed the compliance check
C14_Witness ==
    /\ pc[1] = "rename"
    /\ form[1] = "transformed"
    /\ evaluated[1][Len(evaluated[1])] = "checker"

\* C15: an exception of move_to_incoming, before or after the file was
\* moved, leaves every watermark as it was, below the end of the chunk, ends
\* the chunk loop of the channel, and the channel loop goes on with the next
\* catalog position of the same level: the process does not exit.
C15_MoveFailureAbortsChannel ==
    [][\A r \in Procs :
          (pc[r] = "move" /\ outcome'[r] = "exception")
          => /\ wm' = wm
             /\ wm[Key(r)] < chunks[r][ci[r]].end
             /\ pc'[r] = "loop"
             /\ idx'[r] = idx[r] + 1
             /\ chunks'[r] = << >>
             /\ catalog'[r] = catalog[r]
             /\ level'[r] = level[r]
             /\ exitWhy'[r] = "none"]_vars

\* move_to_incoming raised after the move of the first chunk of the first
\* channel, whose watermark is still absent, and the second channel is being
\* processed
C15_Witness ==
    /\ pc[1] = "plan"
    /\ idx[1] = 2
    /\ chanResult[1] = "exception"
    /\ moved[1] /\ tmp[1]
    /\ wm[<<catalog[1][1].id, level[1]>>] = NoWm

\* what has been moved
C16_Inv ==
    \A r \in Procs :
        outcome[r] \in GateFailures \cup {"dl_none", "no_data", "modify_fail", "regex_fail"}
        => ~moved[r]

\* the step that moves a file
C16_Step ==
    \A r \in Procs :
        (moved'[r] /\ ~moved[r])
        => /\ pc[r] = "move"
           /\ ValidationGates \subseteq {evaluated[r][i] : i \in DOMAIN evaluated[r]}
           /\ outcome[r] = "none"
           /\ form[r] = "renamed"

\* C16: a file is moved to the incoming directory only by move_to_incoming,
\* reached when each of the five gates was evaluated on the file and none
\* failed; a file that failed a gate, the transformation or the file name
\* check, and a NO_DATA_FOUND file, is never moved.
C16_OnlyValidatedPublished == [](C16_Inv) /\ [][C16_Step]_vars

\* a file that passed every gate has been moved
C16_Witness ==
    /\ moved[1]
    /\ outcome[1] = "published"
    /\ pc[1] = "save"
    /\ Len(evaluated[1]) = Len(GateOrder)

\* C17: chunk coverage.  The chunks planned for a channel with watermark w
\* and catalog bound thru_date start at w (at from_date when there is no
\* watermark), end at thru_date, are each non-empty, each begin where the one
\* before ended, and the chunk loop begins with the first; no chunk is planned
\* exactly when the start is at or past thru_date.
C17_ChunkCoverage ==
    [][\A r \in Procs :
          (pc[r] = "plan" /\ pc'[r] \in {"download", "loop"} /\ outcome'[r] = "none")
          => LET w   == wm[Key(r)]
                 rec == catalog[r][idx[r]]
                 s0  == IF w = NoWm THEN rec.from_date ELSE w
                 c   == chunks'[r]
             IN  IF pc'[r] = "download"
                 THEN /\ s0 < rec.thru_date
                      /\ c # << >>
                      /\ ci'[r] = 1
                      /\ c[1].start = s0
                      /\ c[Len(c)].end = rec.thru_date
                      /\ \A i \in DOMAIN c :
                            /\ c[i].start < c[i].end
                            /\ i < Len(c) => c[i].end = c[i + 1].start
                 ELSE s0 >= rec.thru_date]_vars

\* two chunks were planned from a recorded watermark to the thru_date
C17_Witness ==
    /\ pc[1] = "download"
    /\ ci[1] = 1
    /\ Len(chunks[1]) = 2
    /\ wm[Key(1)] = ChunkLen
    /\ chunks[1][1].start = ChunkLen

\* where a download comes from
C18_Inv ==
    \A r \in Procs :
        /\ pc[r] \in InChunkLoop => ci[r] \in 1..Len(chunks[r])
        /\ pc[r] = "download"
              => IF ci[r] = 1
                 THEN outcome[r] = "none"
                 ELSE outcome[r] \in {"no_data", "published"}

\* how the chunk loop moves
C18_Step ==
    \A r \in Procs :
        /\ (pc'[r] = "download" /\ pc[r] # "download")
              => \/ pc[r] = "plan" /\ ci'[r] = 1
                 \/ /\ pc[r] = "save"
                    /\ outcome[r] \notin AbortClass
                    /\ ci'[r] = ci[r] + 1
                    /\ chunks'[r] = chunks[r]
                    /\ idx'[r] = idx[r]
        /\ (pc[r] \in InChunkLoop /\ pc'[r] \in InChunkLoop)
              => chunks'[r] = chunks[r] /\ ci'[r] \in {ci[r], ci[r] + 1}
        /\ (pc[r] \in InChunkLoop /\ outcome'[r] \in AbortClass)
              => pc'[r] \notin InChunkLoop

\* C18: the chunks of a channel are processed one at a time in the order
\* planned.  A download is the first chunk's, after the planning, or the next
\* chunk's, after save_channel_info ended a chunk whose outcome was
\* NO_DATA_FOUND or a publish; the loop never goes back or skips; and an
\* abort-class outcome leaves the chunk loop, so no later chunk is attempted.
C18_SequentialChunks == [](C18_Inv) /\ [][C18_Step]_vars

\* the third chunk is about to be downloaded after the second was published
C18_Witness ==
    /\ pc[1] = "download"
    /\ ci[1] = 3
    /\ outcome[1] = "published"

\* what is recorded while a later chunk is processed
C19_Inv ==
    \A r \in Procs :
        /\ (pc[r] \in InChunkLoop /\ ci[r] > 1)
              => wm[Key(r)] >= chunks[r][ci[r] - 1].end
        /\ (pc[r] = "save" /\ outcome[r] = "published")
              => moved[r] /\ wm[Key(r)] < chunks[r][ci[r]].end

\* the save that follows a publish, and the end of a process
C19_Step ==
    \A r \in Procs :
        /\ (/\ pc[r] = "save" /\ outcome[r] = "published"
             /\ pc'[r] \in {"download", "loop"} /\ outcome'[r] = "published")
              => wm'[Key(r)] = chunks[r][ci[r]].end
        /\ (pc[r] \in InChunkLoop /\ pc'[r] = "idle") => wm' = wm

\* C19: the file of a chunk is moved before save_channel_info is called, the
\* call sets the watermark to the end of the chunk, and the next chunk is
\* downloaded only after it: while chunk i+1 is processed the watermark is at
\* or past the end of chunk i, and a process terminated there leaves the
\* store as it is.
C19_PublishedThenAdvanced == [](C19_Inv) /\ [][C19_Step]_vars

\* the second chunk is about to be downloaded, the first published and
\* recorded
C19_Witness ==
    /\ pc[1] = "download"
    /\ ci[1] = 2
    /\ outcome[1] = "published"
    /\ wm[Key(1)] = chunks[1][1].end

\* C20 as stated: a process that holds the guard and exits by an exit of the
\* script for another reason than a catalog failure or the backlog threshold
\* has run the channel loops of both qc-levels.
C20_OnlyCatalogAndBacklogEscalate ==
    \A r \in Procs :
        (/\ pc[r] = "exiting" /\ lock = r
         /\ exitWhy[r] \notin {"catalog", "backlog", "startup"})
        => exitWhy[r] = "complete" /\ attempted[r] = Levels

\* C20 as amended: a process that holds the guard exits without having run
\* the channel loops of both qc-levels only on a catalog failure, on the
\* backlog threshold being reached, on a failed start-up data validation
\* test, or on an exception of the start-up steps of the __main__ block; in
\* every other case it reaches the final exit(0) after a channel loop of each
\* level that made the call for every channel of the catalog.
C20_Escalations ==
    \A r \in Procs :
        /\ (pc[r] = "exiting" /\ lock = r)
              => exitWhy[r] \in {"catalog", "backlog", "selftest", "startup", "complete"}
        /\ exitWhy[r] = "complete" => attempted[r] = Levels /\ catFailed[r] = {}
        /\ pc[r] = "levelend" => entered[r] = DOMAIN catalog[r] /\ catalog[r] # << >>
        /\ exitWhy[r] = "catalog" => catFailed[r] # {}
        /\ exitWhy[r] = "backlog" => TooManyFiles(listing[r]) /\ attempted[r] = {}
        /\ exitWhy[r] = "selftest"
              => res[r] = "fail" /\ ~TooManyFiles(listing[r]) /\ attempted[r] = {}
        /\ exitWhy[r] = "startup" => attempted[r] = {}

\* the start-up data validation test failed under the backlog threshold and
\* the process exits without having called process_qc_level
C20_Witness ==
    /\ pc[1] = "exiting"
    /\ lock = 1
    /\ exitWhy[1] = "selftest"
    /\ listing[1] = BacklogThreshold - 1
    /\ attempted[1] = {}

\* C21 as stated: after each terminal outcome of a chunk the workspace of its
\* file is gone, and when the processing of a channel has ended no workspace
\* of a downloaded file is left.
C21_WorkspaceAlwaysRemoved ==
    \A r \in Procs :
        /\ outcome[r] \in GateFailures \cup {"no_data", "modify_fail", "published"}
              => ~tmp[r]
        /\ pc[r] \in {"loop", "levelend", "fetch", "exiting"} => ~tmp[r]

\* C22: a channel for which nothing is planned (the start is at or past the
\* thru_date, and only then) is left at once as up to date: no chunk loop, no
\* contact with the feed, nothing moved or copied, no workspace, every
\* watermark as it was, and the channel loop goes on with the next catalog
\* position of the same level.
C22_UpToDateChannel ==
    [][\A r \in Procs :
          (pc[r] = "plan" /\ pc'[r] \in {"download", "loop"} /\ outcome'[r] = "none")
          => LET w   == wm[Key(r)]
                 rec == catalog[r][idx[r]]
                 s0  == IF w = NoWm THEN rec.from_date ELSE w
             IN  /\ (s0 >= rec.thru_date) <=> (pc'[r] = "loop")
                 /\ pc'[r] = "loop"
                       => /\ wm' = wm
                          /\ chanResult'[r] = "uptodate"
                          /\ ~moved'[r] /\ ~inErrors'[r] /\ ~tmp'[r]
                          /\ contacted'[r] = contacted[r]
                          /\ harvested'[r] = harvested[r]
                          /\ idx'[r] = idx[r] + 1
                          /\ catalog'[r] = catalog[r]
                          /\ level'[r] = level[r]
                          /\ exitWhy'[r] = "none"
                          /\ prior' = prior]_vars

\* the first channel was found up to date, its watermark at its thru_date,
\* and the second is being processed
C22_Witness ==
    /\ pc[1] = "plan"
    /\ idx[1] = 2
    /\ chanResult[1] = "uptodate"
    /\ wm[<<catalog[1][1].id, level[1]>>] >= catalog[1][1].thru_date

\* where the watermark of the channel in progress stands
C27_Inv ==
    \A r \in Procs :
        pc[r] \in InChunkLoop
        => LET k == <<catalog[r][idx[r]].id, level[r]>>
               c == chunks[r]
           IN  IF ci[r] = 1
               THEN \/ wm[k] = NoWm /\ c[1].start = catalog[r][idx[r]].from_date
                    \/ wm[k] = c[1].start
               ELSE wm[k] = c[ci[r] - 1].end

\* what a change of the store is
C27_Step ==
    \A k \in Keys :
        wm'[k] # wm[k]
        => \E r \in Procs :
              /\ pc[r] = "save"
              /\ k = <<catalog[r][idx[r]].id, level[r]>>
              /\ outcome[r] \in {"no_data", "published"}
              /\ wm'[k] = chunks[r][ci[r]].end
              /\ ci'[r] \in {ci[r] + 1, 0}

\* C27: prefix coverage.  While the chunk loop of a channel is at its i-th
\* chunk, the i-1 chunks before it are those whose iteration ended, with a
\* publish or NO_DATA_FOUND, and the watermark of the (channel, qc_level) is
\* the end of the last of them, or its value at the planning when i = 1;
\* the store changes only by a save_channel_info that ends such an iteration
\* and sets the watermark to the end of its chunk.
C27_PrefixCoverage == [](C27_Inv) /\ [][C27_Step]_vars

\* the loop is at the third chunk and the watermark at the end of the second
C27_Witness ==
    /\ pc[1] = "checker"
    /\ ci[1] = 3
    /\ wm[Key(1)] = chunks[1][2].end

\* a run whose unit tests failed
C28_Inv ==
    \A r \in Procs :
        res[r] = "fail"
        => /\ pc[r] \in {"read_listing", "admission", "dispatch", "exiting"}
           /\ attempted[r] = {} /\ entered[r] = {}
           /\ ~harvested[r] /\ ~moved[r] /\ ~inErrors[r]
           /\ pc[r] = "exiting"
                 => /\ exitWhy[r] \in {"selftest", "backlog", "startup"}
                    /\ exitWhy[r] # "startup" => ExitStatus(exitWhy[r]) = 0

\* such a run writes nothing
C28_Step ==
    \A r \in Procs : (res[r] = "fail" /\ lock = r) => wm' = wm

\* C28: self-test gating.  A run whose start-up data validation test did not
\* succeed never calls process_qc_level: no catalog is fetched, no channel
\* entered, nothing moved or copied, no watermark changed; unless a start-up
\* step raises, it ends at an exit(0) of the script, that of the backlog
\* check or the last line.
C28_SelfTestGating == [](C28_Inv) /\ [][C28_Step]_vars

\* the unit tests failed, the directory is under the threshold, and the run
\* ends at the last line with status 0 having started no level
C28_Witness ==
    /\ res[1] = "fail"
    /\ pc[1] = "exiting"
    /\ exitWhy[1] = "selftest"
    /\ ExitStatus(exitWhy[1]) = 0
    /\ \E k \in Keys : wm[k] # NoWm

\* C29: a step made while a channel is processed at a qc-level leaves the
\* watermark of every other (channel, qc_level) as it was: that of the other
\* channels, and that of the same channel at the other level.
C29_OnlyOwnWatermark ==
    [][\A r \in Procs :
          pc[r] \in InChannel
          => \A k \in Keys :
                k # <<catalog[r][idx[r]].id, level[r]>> => wm'[k] = wm[k]]_vars

\* the second channel is processed at level 1, all its chunks saved, while
\* its watermark at level 0 and the first channel's at level 1 are absent
C29_Witness ==
    /\ pc[1] = "loop"
    /\ level[1] = 1
    /\ idx[1] = 3
    /\ chanResult[1] = "done"
    /\ wm[<<2, 1>>] = catalog[1][2].thru_date
    /\ wm[<<2, 0>>] = NoWm
    /\ wm[<<1, 1>>] = NoWm

\* C30: a file that passed the compliance check and whose fixed name does not
\* match IMOS_ANMN_[A-Z]{1}_ is not moved: it is copied to the errors
\* directory, its workspace is removed, every watermark stays as it was,
\* below the end of the chunk, and the chunk loop is left, the channel loop
\* going on with the next catalog position.
C30_FilenameGate ==
    [][\A r \in Procs :
          (pc[r] = "rename" /\ outcome'[r] = "regex_fail")
          => /\ evaluated[r][Len(evaluated[r])] = "checker"
             /\ ~moved'[r]
             /\ inErrors'[r]
             /\ ~tmp'[r]
             /\ wm' = wm
             /\ wm[Key(r)] < chunks[r][ci[r]].end
             /\ pc'[r] = "loop"
             /\ idx'[r] = idx[r] + 1
             /\ chunks'[r] = << >>]_vars

\* the second chunk of the first channel failed the file name test, the
\* watermark is at the end of the first chunk, and the second channel is
\* being processed
C30_Witness ==
    /\ pc[1] = "plan"
    /\ idx[1] = 2
    /\ outcome[1] = "regex_fail"
    /\ inErrors[1] /\ ~tmp[1] /\ ~moved[1]
    /\ wm[<<catalog[1][1].id, level[1]>>] = ChunkLen

\* C23: no retry inside a run.  A step of a run at download_channel never asks
\* for a chunk of a (channel, qc_level) that the same run has downloaded
\* before, whatever became of it; the record of the run's downloads is only
\* emptied by the end of the process, so a failed chunk is downloaded again
\* by a later run only.
C23_NoRetryInsideRun ==
    [][/\ \A r \in Procs :
             (pc[r] = "download" /\ pc'[r] # "idle")
             => <<Key(r), chunks[r][ci[r]].start>> \notin fetched
       /\ \A f \in fetched :
             f \notin fetched' => \E r \in Procs : pc[r] # "idle" /\ pc'[r] = "idle"]_vars

\* the first chunk of the first channel was downloaded and failed, its
\* watermark is where it was, and the run has gone on to level 1
C23_Witness ==
    /\ pc[1] = "plan"
    /\ level[1] = 1
    /\ <<<<1, 0>>, 0>> \in fetched
    /\ wm[<<1, 0>>] = NoWm
    /\ wm[<<2, 0>>] = MaxDate

\* the watermark of the key of the broken chunk never passes its start
C24_Inv == wm[BrokenKey] <= BrokenStart

\* what the runs do with the channel of the broken chunk
C24_Step ==
    /\ wm[BrokenKey] = BrokenStart => wm'[BrokenKey] = BrokenStart
    /\ \A r \in Procs :
          (pc[r] \in InChannel /\ Key(r) = BrokenKey)
          => /\ (pc[r] = "plan" /\ pc'[r] # "idle" /\ wm[BrokenKey] = BrokenStart)
                   => /\ pc'[r] = IF outcome'[r] = "exception" THEN "loop" ELSE "download"
                      /\ pc'[r] = "download" => chunks'[r][ci'[r]].start = BrokenStart
             /\ pc[r] \in InChunkLoop => chunks[r][ci[r]].start <= BrokenStart
             /\ (pc[r] \in InChunkLoop /\ chunks[r][ci[r]].start = BrokenStart /\ pc'[r] = "loop")
                   => outcome'[r] \in AbortClass

\* C24: head-of-line blocking.  With the chunk k of a channel ending in an
\* abort-class outcome whenever it is attempted, the watermark of its
\* (channel, qc_level) never passes the start of k, the end of chunk k-1, and
\* stays there once it has reached it; every run that processes the channel
\* from there plans k as its first chunk and downloads it again; no chunk
\* after k is ever reached by the chunk loop, so none is downloaded or moved.
\* The watermarks of the other channels are not held back.
C24_HeadOfLineBlocking == [](C24_Inv) /\ [][C24_Step]_vars

\* a later run downloads the broken chunk again, the watermark of its key at
\* the end of the chunk before it, every other watermark at the latest date
C24_Witness ==
    /\ pc[1] = "download"
    /\ Key(1) = BrokenKey
    /\ chunks[1][ci[1]].start = BrokenStart
    /\ wm[BrokenKey] = BrokenStart
    /\ \A k \in Keys \ {BrokenKey} : wm[k] = MaxDate

\* what a run has entered so far
C25_Inv ==
    \A r \in Procs :
        /\ 1 \in attempted[r] => 0 \in attempted[r]
        /\ pc[r] \in InChannel \cup {"fetch", "loop", "levelend"} => level[r] \in {0, 1}

\* a level or a channel is entered for the first time
C25_Step ==
    \A r \in Procs :
        /\ (pc[r] = "fetch" /\ pc'[r] # "idle")
              => /\ level[r] \notin attempted[r]
                 /\ level[r] = 1 => 0 \in attempted[r]
        /\ (pc[r] = "loop" /\ pc'[r] = "plan")
              => /\ idx[r] \notin entered[r]
                 /\ \A i \in entered[r] : i < idx[r]

\* C25: termination.  A run whose every call returns, and that is not
\* terminated from outside, reaches an exit of the script; on its way it
\* starts process_qc_level at most once per level, level 0 before level 1,
\* and calls process_monthly_channel at most once per position of the
\* catalog the level fetched.
C25_Termination ==
    /\ [](C25_Inv)
    /\ [][C25_Step]_vars
    /\ \A r \in Procs : (pc[r] = "selftest") ~> (pc[r] = "exiting")

\* a run at its exit after both levels, every channel of level 1 entered
C25_Witness ==
    /\ pc[1] = "exiting"
    /\ exitWhy[1] = "complete"
    /\ attempted[1] = {0, 1}
    /\ \A k \in Keys : wm[k] = MaxDate

\* C26 as stated: when process_monthly_channel returns or raises with the
\* file of its last chunk moved into the incoming directory, the watermark of
\* the (channel, qc_level) is at or past the end of that chunk, so that no
\* later run plans the chunk again.
C26_PublishedImpliesCovered ==
    [][\A r \in Procs :
          (pc[r] \in InChunkLoop /\ pc'[r] = "loop" /\ moved'[r])
          => /\ wm'[Key(r)] # NoWm
             /\ wm'[Key(r)] >= chunks[r][ci[r]].end]_vars
====
